---- MODULE Spec2Model ----
(***************************************************************************)
(* A state-machine model of src/main.py (SemanticScholarScrapper): the     *)
(* breadth-first crawl get_related_papers, the edge expansion              *)
(* _retrieve_related_papers, the fetcher _get_paper_json_by_id and the     *)
(* writer save_json / create_json_file_name.                               *)
(*                                                                         *)
(* Python values are modelled as follows.  A str that the program takes    *)
(* apart (a title, a file name) is a sequence of one-character strings; an *)
(* identifier is a TLA+ string.  A JSON object is a function from its keys *)
(* to its values, so a missing key is a key outside DOMAIN.  A dict whose  *)
(* iteration order the program reads (papers_dict) is a record of its keys *)
(* in insertion order and its values.  An exception that nothing catches   *)
(* ends the run: pc = "raised" and exc names it.                           *)
(***************************************************************************)
EXTENDS Integers, Sequences, FiniteSets, TLC

\* ------------------------------------------------------------------ bounds

\* The largest number of seed papers papers_dict holds when a run starts.
MaxSeeds == 2

\* The largest number of titles main asks for.
MaxTitles == 2

\* --------------------------------------------------------------- constants

\* create_json_file_name: max_no_chars = 50
max_no_chars == 50

None == "None"

\* The out_dir_name arguments tried: no directory, or one directory.
OutDirs == {None, "out"}

\* ------------------------------------------------------------- characters

UpperCase ==
    <<"A", "B", "C", "D", "E", "F", "G", "H", "I", "J", "K", "L", "M",
      "N", "O", "P", "Q", "R", "S", "T", "U", "V", "W", "X", "Y", "Z">>

LowerCase ==
    <<"a", "b", "c", "d", "e", "f", "g", "h", "i", "j", "k", "l", "m",
      "n", "o", "p", "q", "r", "s", "t", "u", "v", "w", "x", "y", "z">>

Digits == <<"0", "1", "2", "3", "4", "5", "6", "7", "8", "9">>

Range(s) == {s[i] : i \in DOMAIN s}

\* The characters the regular expression \w matches.
IsWordChar(c) == c \in Range(UpperCase) \cup Range(LowerCase) \cup Range(Digits) \cup {"_"}

\* str.lower() on one character.
LowerChar(c) ==
    IF c \in Range(UpperCase)
    THEN LowerCase[CHOOSE i \in DOMAIN UpperCase : UpperCase[i] = c]
    ELSE c

\* str.lower()
Lower(s) == [i \in DOMAIN s |-> LowerChar(s[i])]

\* '_'.join(re.findall('\w+', title)): the maximal runs of word characters,
\* in order, with one underscore between two consecutive runs.  Position i
\* gives its word character; the first character after a run gives the
\* underscore when another run follows; every other position gives nothing.
JoinRuns(s) ==
    LET out == [i \in DOMAIN s |->
                   IF IsWordChar(s[i]) THEN s[i]
                   ELSE IF /\ i > 1
                           /\ IsWordChar(s[i - 1])
                           /\ \E j \in (i + 1)..Len(s) : IsWordChar(s[j])
                        THEN "_"
                        ELSE ""]
    IN  SelectSeq(out, LAMBDA c : c # "")

\* s[:n]
Prefix(s, n) == SubSeq(s, 1, IF Len(s) < n THEN Len(s) ELSE n)

\* create_json_file_name's title slug.
Slug(title) == Prefix(Lower(JoinRuns(title)), max_no_chars)

\* create_json_file_name: the file's name inside out_dir_name.  It reads
\* paper_dict['title'], so it is defined only for a record that has a title.
create_json_file_name(paper_dict) == Slug(paper_dict["title"]) \o <<".", "j", "s", "o", "n">>

HasTitle(paper_dict) == "title" \in DOMAIN paper_dict

\* ----------------------------------------------------------- Python dict

EmptyDict == [keys |-> <<>>, vals |-> <<>>]

\* k in d
Has(d, k) == k \in DOMAIN d.vals

\* d[k]
Get(d, k) == d.vals[k]

\* d[k] = v
Put(d, k, v) ==
    IF Has(d, k)
    THEN [keys |-> d.keys, vals |-> [x \in DOMAIN d.vals |-> IF x = k THEN v ELSE d.vals[x]]]
    ELSE [keys |-> Append(d.keys, k), vals |-> d.vals @@ (k :> v)]

Keys(d) == DOMAIN d.vals

\* ------------------------------------------------------- the repository

\* Paper identifiers of the repository, and the empty identifier of an
\* untracked edge stub.
RealIds == {"A", "B", "C", "D"}

EmptyId == ""

TitleSurvey ==
    <<"G", "r", "a", "p", "h", " ", "C", "r", "a", "w", "l", ":", " ", "A", " ", "S",
      "u", "r", "v", "e", "y", "!">>

TitleBFS == <<"B", "F", "S">>

TitleNets ==
    <<"C", "i", "t", "a", "t", "i", "o", "n", " ", "N", "e", "t", "s", " ", "2">>

TitleIndex == <<"A", "n", "_", "I", "n", "d", "e", "x">>

TitlePartOne ==
    <<"D", "e", "e", "p", " ", "L", "e", "a", "r", "n", "i", "n", "g", " ", "M", "e",
      "t", "h", "o", "d", "s", " ", "F", "o", "r", " ", "C", "i", "t", "a", "t", "i",
      "o", "n", " ", "G", "r", "a", "p", "h", " ", "A", "n", "a", "l", "y", "s", "i",
      "s", " ", "A", "n", "d", " ", "R", "e", "t", "r", "i", "e", "v", "a", "l", " ",
      "O", "n", "e">>

TitlePartTwo ==
    <<"D", "e", "e", "p", " ", "L", "e", "a", "r", "n", "i", "n", "g", " ", "M", "e",
      "t", "h", "o", "d", "s", " ", "F", "o", "r", " ", "C", "i", "t", "a", "t", "i",
      "o", "n", " ", "G", "r", "a", "p", "h", " ", "A", "n", "a", "l", "y", "s", "i",
      "s", ",", " ", "a", "n", "d", " ", "R", "e", "t", "r", "i", "e", "v", "a", "l",
      " ", "T", "w", "o">>

\* An edge list as the API returns it: one stub {paperId: ...} per edge.
Stubs(ids) == [i \in DOMAIN ids |-> [paperId |-> ids[i]]]

\* The JSON object of a paper (GET /v1/paper/<id>).
PaperBody(id, title, refs, cits) ==
    [paperId |-> id, title |-> title, references |-> Stubs(refs), citations |-> Stubs(cits)]

\* The JSON object of an error answer (a non-2xx status such as 404).
ErrorBody == [error |-> "Paper not found"]

\* Two repositories.  Diamond: A references B and C, B is cited by A and D.
\* Tangle: cycles, a self reference, repeated and empty stubs, and two
\* titles (C, D) with the same file name.
Diamond ==
    [A |-> PaperBody("A", TitleSurvey, <<"B", "C">>, <<>>),
     B |-> PaperBody("B", TitleBFS, <<>>, <<"A", "D">>),
     C |-> PaperBody("C", TitleNets, <<>>, <<>>),
     D |-> PaperBody("D", TitleIndex, <<>>, <<>>)]

Tangle ==
    [A |-> PaperBody("A", TitleSurvey, <<"", "B", "B">>, <<"A", "C">>),
     B |-> PaperBody("B", TitleBFS, <<"A">>, <<"", "C", "D">>),
     C |-> PaperBody("C", TitlePartOne, <<"D">>, <<"B">>),
     D |-> PaperBody("D", TitlePartTwo, <<>>, <<"C">>)]

Repositories == {Diamond, Tangle}

\* scrap_paper_by_title adds three fields to the API's object of a seed.
SeedRecord(body) ==
    body @@ [abstract |-> "abstract", topics |-> "topics", bibtex_citation |-> "bibtex"]

\* Sequences over S without repetition, of length at most n.
RECURSIVE Orders(_, _)
Orders(S, n) ==
    IF n = 0 THEN {<<>>}
    ELSE LET shorter == Orders(S, n - 1)
         IN  shorter \cup UNION {{Append(s, x) : x \in S \ Range(s)} : s \in shorter}

\* papers_dict as scrap_paper_list_by_title returns it for the seeds in
\* the given order.
RECURSIVE SeedDict(_, _)
SeedDict(repo, seeds) ==
    IF seeds = <<>> THEN EmptyDict
    ELSE LET n == Len(seeds)
         IN  Put(SeedDict(repo, SubSeq(seeds, 1, n - 1)), seeds[n], SeedRecord(repo[seeds[n]]))

\* No Response object: requests.get raised, or was not called yet.
NoResponse == [status |-> 0, json |-> FALSE, body |-> ErrorBody]

\* The answers the repository can give to GET <api_url><paper_id>: the
\* paper's object, an error object under a non-2xx status, or a body that
\* is not JSON.  requests.get returns each of them as a Response.
Responses(rp, id) ==
    (IF id \in DOMAIN rp THEN {[status |-> 200, json |-> TRUE, body |-> rp[id]]} ELSE {})
    \cup {[status |-> 404, json |-> TRUE, body |-> ErrorBody],
          [status |-> 502, json |-> FALSE, body |-> ErrorBody]}

\* What requests.get can do: return a Response, or raise RequestException
\* (NoResponse) when no answer arrives.
GetOutcomes(rp, id) == Responses(rp, id) \cup {NoResponse}

\* ------------------------------------------------------- the search site

\* The paper page the browser shows: the paper's id (the end of the page's
\* URL) and its title (the h1 of the page).
Page(rp, id) == [id |-> id, title |-> rp[id]["title"]]

NoPage == [id |-> "", title |-> <<>>]

\* Titles main asks for (the file names of papers_dir, extension removed).
QueryBFS == <<"B", "F", "S">>

QuerySurvey ==
    <<"G", "r", "a", "p", "h", " ", "C", "r", "a", "w", "l", " ", "A", " ", "S", "u",
      "r", "v", "e", "y">>

QueryFoo == <<"F", "o", "o">>

Queries == {QueryBFS, QuerySurvey, QueryFoo}

\* The paper behind the first link of the site's result page for a title.
FirstResult(query) ==
    CASE query = QueryBFS -> "B"
      [] query = QuerySurvey -> "A"
      [] OTHER -> "C"

\* ------------------------------------------------------------ levenshtein

MinOf(S) == CHOOSE x \in S : \A y \in S : x <= y

\* One row of the edit-distance table from the row before it.  A row is
\* the sequence of its cells 0..Len(b), cell j at position j + 1.  Cell j is
\* the least of a deletion, a substitution (free when the characters agree)
\* and an insertion after any cell to its left.
Candidates(prev, i, a, b) ==
    [j \in 1..(Len(b) + 1) |->
        IF j = 1 THEN i
        ELSE MinOf({prev[j] + 1, prev[j - 1] + (IF a[i] = b[j - 1] THEN 0 ELSE 1)})] \o <<>>

NextRow(prev, i, a, b) ==
    CHOOSE row \in {[j \in 1..(Len(b) + 1) |-> MinOf({cand[k] + (j - k) : k \in 1..j})] \o <<>> :
                       cand \in {Candidates(prev, i, a, b)}} : TRUE

RECURSIVE LevRow(_, _, _)
LevRow(a, b, i) ==
    IF i = 0 THEN [j \in 1..(Len(b) + 1) |-> j - 1] \o <<>>
    ELSE CHOOSE row \in {NextRow(prev, i, a, b) : prev \in {LevRow(a, b, i - 1)}} : TRUE

\* distance.levenshtein(a, b)
levenshtein(a, b) == LevRow(a, b, Len(a))[Len(b) + 1]

\* _check_paper_page, line 208: 0 <= distance <= 10
LevenshteinLimit == 10

\* A variant in which the raise of line 209 raises the class it names.
RaisedAsNamed(class) == class

\* The exception a raise statement ends with.  raise <class> calls the class
\* without arguments, and FirstPaperDifferentError.__init__ (line 361) takes
\* two: the statement of line 209 ends with TypeError.
RaisedBy(class) ==
    IF class = "FirstPaperDifferentError" THEN "TypeError" ELSE class

\* ------------------------------------------------------------------ state

VARIABLES
    repo,                   \* the repository's papers (static)
    papers_dict,            \* the record store: paper id -> paper dictionary
    files,                  \* the output directory: file name -> content
    trace,                  \* the events so far: request, sleep, store, save, enqueue, visit
    pc,                     \* the line the program is at
    exc,                    \* the exception that ended the run, or None
    stack,                  \* the methods on the call stack, outermost first
    out_dir_name,           \* get_related_papers / _retrieve_related_papers argument
    paper_id_queue,         \* the deque of the breadth-first search
    paper_visited_set,      \* the set of the breadth-first search
    current_paper_id,       \* get_related_papers
    call_line,              \* get_related_papers: the call it is at (64 or 65)
    paper_id,               \* _retrieve_related_papers argument
    relationship_type,      \* _retrieve_related_papers argument
    related_papers_id_list, \* _retrieve_related_papers
    idx,                    \* _retrieve_related_papers: position of the for loop
    related_paper_dict,     \* _retrieve_related_papers
    fetch_id,               \* _get_paper_json_by_id argument
    request,                \* _get_paper_json_by_id: the Response
    paper_title_list,       \* scrap_paper_list_by_title argument
    title_idx,              \* scrap_paper_list_by_title: position of the for loop
    attributes_dict,        \* scrap_paper_by_title
    page,                   \* the paper page the browser shows
    main_idx,               \* main: position of the for loop over papers_dict
    web_driver,             \* self._web_driver: None, open or closed
    swallowed,              \* the exceptions the finally of line 190 discarded
    callers                 \* the locals of each concurrent call of _retrieve_related_papers

grpVars == <<paper_id_queue, paper_visited_set, current_paper_id, call_line>>

rrpVars == <<paper_id, relationship_type, related_papers_id_list, idx, related_paper_dict>>

fetchVars == <<fetch_id, request>>

seedVars == <<paper_title_list, title_idx, attributes_dict, page, main_idx>>

\* What the handlers of scrap_paper_by_title (lines 187-191) change.
handlerVars == <<web_driver, swallowed>>

vars ==
    <<repo, callers, papers_dict, files, trace, pc, exc, stack, out_dir_name,
      grpVars, rrpVars, fetchVars, seedVars, handlerVars>>

Ev(kind, id) == [ev |-> kind, id |-> id]

\* The values local variables hold outside their method.
NoFrame ==
    /\ paper_id' = None
    /\ relationship_type' = None
    /\ related_papers_id_list' = <<>>
    /\ idx' = 0
    /\ related_paper_dict' = ErrorBody

\* A variant in which _retrieve_related_papers catches the exception of a
\* related paper and goes on with lines 96-97.
RaiseCaught(e) ==
    /\ pc' = "rrp_enqueue"
    /\ exc' = e
    /\ stack' = <<stack[1]>>
    /\ UNCHANGED handlerVars

\* The position of method m on the stack, 0 when it is not there.
Frame(m) ==
    IF \E i \in DOMAIN stack : stack[i] = m
    THEN CHOOSE i \in DOMAIN stack : stack[i] = m
    ELSE 0

\* An exception leaves the method that raised it and every caller without a
\* handler.  The one handler of the program is scrap_paper_by_title's (lines
\* 187-191): except FirstPaperDifferentError closes the browser, and the
\* return of the finally clause discards whatever exception is in flight.
\* With no handler on the stack the exception ends the run.
Raise(e) ==
    IF Frame("scrap_paper_by_title") > 0
    THEN /\ pc' = "spbt_return"
         /\ exc' = exc
         /\ stack' = SubSeq(stack, 1, Frame("scrap_paper_by_title"))
         /\ web_driver' = (IF e = "FirstPaperDifferentError" THEN "closed" ELSE web_driver)
         /\ swallowed' = Append(swallowed, e)
    ELSE /\ pc' = "raised"
         /\ exc' = e
         /\ stack' = stack
         /\ UNCHANGED handlerVars

\* --------------------------------------------------------------- the run

\* The seeds a run starts with.  A seed's key is the paperId of an API
\* object, which is never empty.
Init ==
    /\ repo \in Repositories
    /\ \E seeds \in Orders(RealIds, MaxSeeds) : papers_dict = SeedDict(repo, seeds)
    /\ files = <<>>
    /\ trace = <<>>
    /\ pc = "idle"
    /\ exc = None
    /\ stack = <<>>
    /\ out_dir_name = None
    /\ paper_id_queue = <<>>
    /\ paper_visited_set = {}
    /\ current_paper_id = None
    /\ call_line = 0
    /\ paper_id = None
    /\ relationship_type = None
    /\ related_papers_id_list = <<>>
    /\ idx = 0
    /\ related_paper_dict = ErrorBody
    /\ fetch_id = None
    /\ request = NoResponse
    /\ paper_title_list = <<>>
    /\ title_idx = 0
    /\ attributes_dict = <<>>
    /\ page = NoPage
    /\ main_idx = 0
    /\ web_driver = None
    /\ swallowed = <<>>
    /\ callers = <<>>

\* ------------------------------------------- calling _retrieve_related_papers

\* def _retrieve_related_papers(self, papers_dict, paper_id, relationship_type,
\*                              paper_visited_set, paper_id_queue, out_dir_name=None)
RetrieveParams ==
    <<"papers_dict", "paper_id", "relationship_type", "paper_visited_set",
      "paper_id_queue", "out_dir_name">>

\* The parameters that have a default value.
RetrieveDefaults == {"out_dir_name"}

\* Python binds positional arguments to the parameters in order; the call
\* raises TypeError when a parameter without a default is left unbound.
Binds(args) ==
    /\ Len(args) <= Len(RetrieveParams)
    /\ \A i \in (Len(args) + 1)..Len(RetrieveParams) : RetrieveParams[i] \in RetrieveDefaults

\* The positional arguments get_related_papers passes (lines 64 and 65).  An
\* object is passed by reference and is named here by the variable holding it.
GrpCallArgs(id, rel, out) == <<"papers_dict", id, rel, out>>

\* The positional arguments of a caller that follows the signature.
DirectCallArgs(id, rel, out) ==
    <<"papers_dict", id, rel, "paper_visited_set", "paper_id_queue", out>>

\* The paper_visited_set arguments a direct caller passes.
VisitedArgs == {{}, RealIds}

RelationshipTypes == {"references", "citations"}

\* A variant of lines 84-86 that keeps every stub.
KeepEveryStub(stubs) == [i \in DOMAIN stubs |-> stubs[i]["paperId"]]

\* Lines 84-86: the paperId of every stub whose paperId is not ''.
RelatedPapersIdList(stubs) ==
    LET kept == SelectSeq(stubs, LAMBDA st : st["paperId"] # "")
    IN  [i \in DOMAIN kept |-> kept[i]["paperId"]]

\* A variant of line 89 that tests the visited set instead of papers_dict.
NotInVisitedSet(d, id) == id \notin paper_visited_set

\* A variant of line 89 that fetches whatever papers_dict holds.
AlwaysFetch(d, id) == TRUE

\* Line 89: related_paper_id not in papers_dict
NotInPapersDict(d, id) == ~Has(d, id)

\* Line 91: papers_dict[related_paper_id] = related_paper_dict
StoreRecord(d, id, rec) == Put(d, id, rec)

\* save_json: open(output_file_name, 'w') and json.dump: the file holds the
\* record, whatever it held before.
save_json(fs, paper_dict) ==
    (create_json_file_name(paper_dict) :> paper_dict) @@ fs

\* Lines 96-97: append unless the identifier is in paper_visited_set.
Enqueue(queue, visited, id) ==
    IF id \notin visited THEN Append(queue, id) ELSE queue

\* The call's first step: bind the arguments, then lines 84-86.
Enter(args) ==
    IF ~Binds(args)
    THEN /\ Raise("TypeError")
         /\ UNCHANGED <<out_dir_name, rrpVars>>
    ELSE IF \/ ~Has(papers_dict, args[2])
            \/ args[3] \notin DOMAIN Get(papers_dict, args[2])
         THEN /\ Raise("KeyError")
              /\ UNCHANGED <<out_dir_name, rrpVars>>
         ELSE /\ pc' = "rrp_for"
              /\ exc' = exc
              /\ stack' = Append(stack, "_retrieve_related_papers")
              /\ UNCHANGED handlerVars
              /\ out_dir_name' = (IF Len(args) >= 6 THEN args[6] ELSE None)
              /\ paper_id' = args[2]
              /\ relationship_type' = args[3]
              /\ related_papers_id_list' =
                     RelatedPapersIdList(Get(papers_dict, args[2])[args[3]])
              /\ idx' = 1
              /\ related_paper_dict' = related_paper_dict

\* ------------------------------------------------------ get_related_papers

\* Lines 56-57.
CallGetRelatedPapers ==
    /\ pc = "idle"
    /\ \E out \in OutDirs : out_dir_name' = out
    /\ paper_id_queue' = papers_dict.keys
    /\ paper_visited_set' = {}
    /\ pc' = "grp_while"
    /\ stack' = <<"get_related_papers">>
    /\ UNCHANGED <<handlerVars, seedVars, repo, callers, papers_dict, files, trace, exc, current_paper_id, call_line,
                   rrpVars, fetchVars>>

\* Lines 59-60: pop the next identifier, or return when the queue is empty.
GrpWhile ==
    /\ pc = "grp_while"
    /\ IF Len(paper_id_queue) > 0
       THEN /\ current_paper_id' = Head(paper_id_queue)
            /\ paper_id_queue' = Tail(paper_id_queue)
            /\ pc' = "grp_if"
            /\ stack' = stack
       ELSE /\ pc' = "done"
            /\ stack' = <<>>
            /\ UNCHANGED <<current_paper_id, paper_id_queue>>
    /\ UNCHANGED <<handlerVars, seedVars, repo, callers, papers_dict, files, trace, exc, out_dir_name, paper_visited_set,
                   call_line, rrpVars, fetchVars>>

\* A variant of lines 62-63 that leaves the visited set as it is.
GrpVisitUnmarked ==
    /\ pc = "grp_if"
    /\ trace' = Append(trace, Ev("visit", current_paper_id))
    /\ call_line' = 64
    /\ pc' = "grp_call"
    /\ UNCHANGED <<handlerVars, seedVars, repo, callers, papers_dict, files, exc, stack, out_dir_name, paper_id_queue,
                   paper_visited_set, current_paper_id, rrpVars, fetchVars>>

\* Lines 62-63: mark the identifier visited, unless it is already.
GrpVisit ==
    /\ pc = "grp_if"
    /\ IF current_paper_id \notin paper_visited_set
       THEN /\ paper_visited_set' = paper_visited_set \cup {current_paper_id}
            /\ trace' = Append(trace, Ev("visit", current_paper_id))
            /\ call_line' = 64
            /\ pc' = "grp_call"
       ELSE /\ pc' = "grp_while"
            /\ UNCHANGED <<paper_visited_set, trace, call_line>>
    /\ UNCHANGED <<handlerVars, seedVars, repo, callers, papers_dict, files, exc, stack, out_dir_name, paper_id_queue,
                   current_paper_id, rrpVars, fetchVars>>

\* Lines 64 and 65: the two calls of _retrieve_related_papers.
GrpCall ==
    /\ pc = "grp_call"
    /\ Enter(GrpCallArgs(current_paper_id,
                         IF call_line = 64 THEN "references" ELSE "citations",
                         out_dir_name))
    /\ UNCHANGED <<seedVars, repo, callers, papers_dict, files, trace, grpVars, fetchVars>>

\* A caller invokes _retrieve_related_papers as its signature asks, on a
\* paper of papers_dict, with its own set and its own deque.
CallRetrieve ==
    /\ pc = "idle"
    /\ \E id \in Keys(papers_dict), rel \in RelationshipTypes,
          visited \in VisitedArgs, out \in OutDirs :
          /\ paper_visited_set' = visited
          /\ Enter(DirectCallArgs(id, rel, out))
    /\ UNCHANGED <<seedVars, repo, callers, papers_dict, files, trace, paper_id_queue, current_paper_id,
                   call_line, fetchVars>>

\* ------------------------------------------------ _retrieve_related_papers

\* return: to line 65, to line 59, or to the direct caller.
RrpReturn ==
    /\ NoFrame
    /\ stack' = SubSeq(stack, 1, Len(stack) - 1)
    /\ IF Len(stack) = 1
       THEN /\ pc' = "idle"
            /\ out_dir_name' = None
            /\ paper_visited_set' = {}
            /\ UNCHANGED call_line
       ELSE /\ pc' = (IF call_line = 64 THEN "grp_call" ELSE "grp_while")
            /\ call_line' = 65
            /\ UNCHANGED <<out_dir_name, paper_visited_set>>
    /\ UNCHANGED <<fetch_id, paper_id_queue>>

\* Lines 88-89: the next identifier of the list; fetch it when it is not a
\* key of papers_dict.
RrpFor ==
    /\ pc = "rrp_for"
    /\ IF idx > Len(related_papers_id_list)
       THEN RrpReturn
       ELSE IF NotInPapersDict(papers_dict, related_papers_id_list[idx])
            THEN /\ fetch_id' = related_papers_id_list[idx]
                 /\ pc' = "get"
                 /\ stack' = Append(stack, "_get_paper_json_by_id")
                 /\ UNCHANGED <<out_dir_name, paper_id_queue, paper_visited_set,
                                call_line, rrpVars>>
            ELSE /\ idx' = idx + 1
                 /\ UNCHANGED <<pc, stack, out_dir_name, paper_id_queue, paper_visited_set,
                                call_line, paper_id, relationship_type,
                                related_papers_id_list, related_paper_dict, fetch_id>>
    /\ UNCHANGED <<handlerVars, seedVars, repo, callers, papers_dict, files, trace, exc, current_paper_id, request>>

\* Line 91.
RrpStore ==
    /\ pc = "rrp_store"
    /\ papers_dict' = StoreRecord(papers_dict, related_papers_id_list[idx], related_paper_dict)
    /\ trace' = Append(trace, Ev("store", related_papers_id_list[idx]))
    /\ pc' = "rrp_save"
    /\ UNCHANGED <<handlerVars, seedVars, repo, callers, files, exc, stack, out_dir_name, grpVars, rrpVars, fetchVars>>

\* Lines 93-94: save_json raises KeyError for a record without a title.
RrpSave ==
    /\ pc = "rrp_save"
    /\ IF out_dir_name = None
       THEN /\ pc' = "rrp_enqueue"
            /\ UNCHANGED <<files, trace, exc, stack, handlerVars>>
       ELSE IF ~HasTitle(related_paper_dict)
            THEN /\ Raise("KeyError")
                 /\ UNCHANGED <<files, trace>>
            ELSE /\ files' = save_json(files, related_paper_dict)
                 /\ trace' = Append(trace, Ev("save", related_papers_id_list[idx]))
                 /\ pc' = "rrp_enqueue"
                 /\ UNCHANGED <<exc, stack, handlerVars>>
    /\ UNCHANGED <<seedVars, repo, callers, papers_dict, out_dir_name, grpVars, rrpVars, fetchVars>>

\* Lines 96-97, and the loop's next turn.
RrpEnqueue ==
    /\ pc = "rrp_enqueue"
    /\ paper_id_queue' =
           Enqueue(paper_id_queue, paper_visited_set, related_papers_id_list[idx])
    /\ trace' = (IF paper_id_queue' # paper_id_queue
                 THEN Append(trace, Ev("enqueue", related_papers_id_list[idx]))
                 ELSE trace)
    /\ idx' = idx + 1
    /\ pc' = "rrp_for"
    /\ UNCHANGED <<handlerVars, seedVars, repo, callers, papers_dict, files, exc, stack, out_dir_name, paper_visited_set,
                   current_paper_id, call_line, paper_id, relationship_type,
                   related_papers_id_list, related_paper_dict, fetchVars>>

\* --------------------------------------------------- _get_paper_json_by_id

\* Lines 220-226: requests.get(json_url).  RequestException is raised again.
FetcherGet ==
    /\ pc = "get"
    /\ trace' = Append(trace, Ev("request", fetch_id))
    /\ \E answer \in GetOutcomes(repo, fetch_id) :
          IF answer = NoResponse
          THEN /\ Raise("RequestException")
               /\ UNCHANGED request
          ELSE /\ request' = answer
               /\ pc' = "sleep"
               /\ UNCHANGED <<exc, stack, handlerVars>>
    /\ UNCHANGED <<seedVars, repo, callers, papers_dict, files, out_dir_name, grpVars, rrpVars, fetch_id>>

\* Line 228: time.sleep(self._time_between_api_call)
FetcherSleep ==
    /\ pc = "sleep"
    /\ trace' = Append(trace, Ev("sleep", fetch_id))
    /\ pc' = "json"
    /\ UNCHANGED <<handlerVars, seedVars, repo, callers, papers_dict, files, exc, stack, out_dir_name, grpVars, rrpVars,
                   fetchVars>>

\* Line 229: return request.json().  It raises ValueError for a body that
\* is not JSON and returns the object of any other body, whatever the status.
\* The caller is line 90 (_retrieve_related_papers) or line 178
\* (scrap_paper_by_title).
FetcherJson ==
    /\ pc = "json"
    /\ IF ~request.json
       THEN /\ Raise("ValueError")
            /\ UNCHANGED <<related_paper_dict, attributes_dict, fetchVars>>
       ELSE /\ IF stack[Len(stack) - 1] = "scrap_paper_by_title"
               THEN /\ attributes_dict' = request.body
                    /\ pc' = "spbt_attrs"
                    /\ UNCHANGED related_paper_dict
               ELSE /\ related_paper_dict' = request.body
                    /\ pc' = "rrp_store"
                    /\ UNCHANGED attributes_dict
            /\ stack' = SubSeq(stack, 1, Len(stack) - 1)
            /\ fetch_id' = None
            /\ request' = NoResponse
            /\ UNCHANGED <<exc, handlerVars>>
    /\ UNCHANGED <<paper_title_list, title_idx, page, main_idx, repo, callers, papers_dict, files,
                   trace, out_dir_name, grpVars, paper_id, relationship_type,
                   related_papers_id_list, idx>>

\* ---------------------------------------------- scrap_paper_list_by_title

crawlVars == <<out_dir_name, grpVars, rrpVars>>

\* main, line 371, and lines 140-141: start the browser, papers_dict = dict().
MainCall ==
    /\ pc = "main"
    /\ web_driver' = "open"
    /\ papers_dict' = EmptyDict
    /\ title_idx' = 1
    /\ pc' = "splt_for"
    /\ stack' = <<"main", "scrap_paper_list_by_title">>
    /\ UNCHANGED <<repo, callers, files, trace, exc, crawlVars, fetchVars, paper_title_list,
                   attributes_dict, page, main_idx, swallowed>>

\* _close_browser, line 356: close() on a closed browser raises.
CloseBrowser ==
    IF web_driver = "open"
    THEN /\ web_driver' = "closed"
         /\ UNCHANGED <<exc, swallowed>>
         /\ pc' = "main_for"
         /\ stack' = <<"main">>
    ELSE Raise("WebDriverException")

\* Lines 143-145 and 165: the next title, attributes_dict = dict(); after the
\* last title lines 151-153, and main goes on at line 373.
SpltFor ==
    /\ pc = "splt_for"
    /\ IF title_idx > Len(paper_title_list)
       THEN /\ CloseBrowser
            /\ main_idx' = 1
            /\ UNCHANGED attributes_dict
       ELSE /\ attributes_dict' = <<>>
            /\ pc' = "spbt_search"
            /\ stack' = Append(stack, "scrap_paper_by_title")
            /\ UNCHANGED <<exc, main_idx, handlerVars>>
    /\ UNCHANGED <<repo, callers, papers_dict, files, trace, crawlVars, fetchVars, paper_title_list,
                   title_idx, page>>

\* Lines 171-172: search the title and open the first link.  The waits
\* raise TimeoutException; a closed browser raises at the first command.
SpbtSearch ==
    /\ pc = "spbt_search"
    /\ IF web_driver # "open"
       THEN /\ Raise("WebDriverException")
            /\ UNCHANGED page
       ELSE \E found \in BOOLEAN :
               IF found
               THEN /\ page' = Page(repo, FirstResult(paper_title_list[title_idx]))
                    /\ pc' = "spbt_check"
                    /\ UNCHANGED <<exc, stack, handlerVars>>
               ELSE /\ Raise("TimeoutException")
                    /\ UNCHANGED page
    /\ UNCHANGED <<repo, callers, papers_dict, files, trace, crawlVars, fetchVars, paper_title_list,
                   title_idx, attributes_dict, main_idx>>

\* Line 208: the page is taken for the paper when its title is within
\* LevenshteinLimit edits of the title asked for.
TitleMatches(paper_title, title) ==
    /\ 0 <= levenshtein(paper_title, title)
    /\ levenshtein(paper_title, title) <= LevenshteinLimit

\* Line 173, _check_paper_page (lines 202-209).
SpbtCheck ==
    /\ pc = "spbt_check"
    /\ IF TitleMatches(paper_title_list[title_idx], page.title)
       THEN /\ pc' = "spbt_scrape"
            /\ UNCHANGED <<exc, stack, handlerVars>>
       ELSE Raise(RaisedBy("FirstPaperDifferentError"))
    /\ UNCHANGED <<repo, callers, papers_dict, files, trace, crawlVars, fetchVars, seedVars>>

\* Lines 175-178: read the abstract, the topics and the citation off the
\* page (the waits raise TimeoutException), then fetch the paper by the id
\* of the page's URL.
SpbtScrape ==
    /\ pc = "spbt_scrape"
    /\ \E loaded \in BOOLEAN :
          IF loaded
          THEN /\ fetch_id' = page.id
               /\ pc' = "get"
               /\ stack' = Append(stack, "_get_paper_json_by_id")
               /\ UNCHANGED <<exc, handlerVars>>
          ELSE /\ Raise("TimeoutException")
               /\ UNCHANGED fetch_id
    /\ UNCHANGED <<repo, callers, papers_dict, files, trace, crawlVars, request, seedVars>>

\* Lines 180-185: the three fields are added to whatever object was fetched.
SpbtAttrs ==
    /\ pc = "spbt_attrs"
    /\ attributes_dict' = SeedRecord(attributes_dict)
    /\ pc' = "spbt_return"
    /\ UNCHANGED <<repo, callers, papers_dict, files, trace, exc, stack, crawlVars, fetchVars,
                   paper_title_list, title_idx, page, main_idx, handlerVars>>

\* Lines 190-191 and 145-149: scrap_paper_by_title returns attributes_dict;
\* the record is kept under its paperId, and a record without one is
\* dropped (except KeyError: pass).
SpbtReturn ==
    /\ pc = "spbt_return"
    /\ papers_dict' = (IF "paperId" \in DOMAIN attributes_dict
                       THEN Put(papers_dict, attributes_dict["paperId"], attributes_dict)
                       ELSE papers_dict)
    /\ title_idx' = title_idx + 1
    /\ pc' = "splt_for"
    /\ stack' = <<"main", "scrap_paper_list_by_title">>
    /\ UNCHANGED <<repo, callers, files, trace, exc, crawlVars, fetchVars, paper_title_list,
                   attributes_dict, page, main_idx, handlerVars>>

\* main, lines 378-385: write every record of papers_dict, in its order; a
\* record without a title is skipped (except KeyError: pass).
MainFor ==
    /\ pc = "main_for"
    /\ IF main_idx > Len(papers_dict.keys)
       THEN /\ pc' = "done"
            /\ stack' = <<>>
            /\ UNCHANGED <<files, trace, main_idx>>
       ELSE /\ IF HasTitle(Get(papers_dict, papers_dict.keys[main_idx]))
               THEN /\ files' = save_json(files, Get(papers_dict, papers_dict.keys[main_idx]))
                    /\ trace' = Append(trace, Ev("save", papers_dict.keys[main_idx]))
               ELSE UNCHANGED <<files, trace>>
            /\ main_idx' = main_idx + 1
            /\ UNCHANGED <<pc, stack>>
    /\ UNCHANGED <<repo, callers, papers_dict, exc, crawlVars, fetchVars, paper_title_list,
                   title_idx, attributes_dict, page, handlerVars>>

\* main: the titles are the file names of papers_dir.
InitSeeds ==
    /\ repo \in Repositories
    /\ paper_title_list \in Orders(Queries, MaxTitles)
    /\ papers_dict = EmptyDict
    /\ files = <<>>
    /\ trace = <<>>
    /\ pc = "main"
    /\ exc = None
    /\ stack = <<"main">>
    /\ out_dir_name = None
    /\ paper_id_queue = <<>>
    /\ paper_visited_set = {}
    /\ current_paper_id = None
    /\ call_line = 0
    /\ paper_id = None
    /\ relationship_type = None
    /\ related_papers_id_list = <<>>
    /\ idx = 0
    /\ related_paper_dict = ErrorBody
    /\ fetch_id = None
    /\ request = NoResponse
    /\ title_idx = 0
    /\ attributes_dict = <<>>
    /\ page = NoPage
    /\ main_idx = 0
    /\ web_driver = None
    /\ swallowed = <<>>
    /\ callers = <<>>

NextSeeds ==
    \/ MainCall
    \/ SpltFor
    \/ SpbtSearch
    \/ SpbtCheck
    \/ SpbtScrape
    \/ FetcherGet
    \/ FetcherSleep
    \/ FetcherJson
    \/ SpbtAttrs
    \/ SpbtReturn
    \/ MainFor

SpecSeeds == InitSeeds /\ [][NextSeeds]_vars

Next ==
    \/ CallGetRelatedPapers
    \/ GrpWhile
    \/ GrpVisit
    \/ GrpCall
    \/ CallRetrieve
    \/ RrpFor
    \/ RrpStore
    \/ RrpSave
    \/ RrpEnqueue
    \/ FetcherGet
    \/ FetcherSleep
    \/ FetcherJson

Spec == Init /\ [][Next]_vars

\* ------------------------------------------------------ concurrent callers

\* Two callers run _retrieve_related_papers at once on one papers_dict, one
\* deque and one output directory.  callers[t] holds the locals of caller t;
\* a step is one statement of lines 84-97.  The
\* method takes no lock: between the test of line 89 and the assignment of
\* line 91 a caller waits for the repository and sleeps.
Callers == {1, 2}

NoLocals ==
    [pc |-> "idle", paper_id |-> None, relationship_type |-> None,
     related_papers_id_list |-> <<>>, idx |-> 0, related_paper_dict |-> ErrorBody,
     request |-> NoResponse]

\* The caller's locals after some of them were assigned.
Locals(t, new) == [callers EXCEPT ![t] = new @@ callers[t]]

\* The identifier the for loop of caller t is at.
RelatedPaperId(t) == callers[t].related_papers_id_list[callers[t].idx]

sharedVars == <<repo, pc, exc, stack, grpVars, rrpVars, fetchVars, seedVars, handlerVars>>

\* The call, and lines 84-86.
CallerEnter(t) ==
    /\ callers[t].pc = "idle"
    /\ \E id \in Keys(papers_dict), rel \in RelationshipTypes :
          callers' = Locals(t,
              IF rel \in DOMAIN Get(papers_dict, id)
              THEN [pc |-> "rrp_for", paper_id |-> id, relationship_type |-> rel,
                    related_papers_id_list |-> RelatedPapersIdList(Get(papers_dict, id)[rel]),
                    idx |-> 1]
              ELSE [pc |-> "KeyError", paper_id |-> id, relationship_type |-> rel])
    /\ UNCHANGED <<sharedVars, papers_dict, files, trace, out_dir_name>>

\* Lines 88-89.
CallerFor(t) ==
    /\ callers[t].pc = "rrp_for"
    /\ callers' = Locals(t,
          IF callers[t].idx > Len(callers[t].related_papers_id_list)
          THEN [pc |-> "returned"]
          ELSE IF NotInPapersDict(papers_dict, RelatedPaperId(t))
               THEN [pc |-> "get"]
               ELSE [idx |-> callers[t].idx + 1])
    /\ UNCHANGED <<sharedVars, papers_dict, files, trace, out_dir_name>>

\* Line 90: the whole of _get_paper_json_by_id (lines 220-229), which reads
\* and writes nothing the callers share: the request, then RequestException,
\* or the sleep and then the body's object or ValueError.
CallerFetch(t) ==
    /\ callers[t].pc = "get"
    /\ \E answer \in GetOutcomes(repo, RelatedPaperId(t)) :
          IF answer = NoResponse
          THEN /\ trace' = Append(trace, Ev("request", RelatedPaperId(t)))
               /\ callers' = Locals(t, [pc |-> "RequestException"])
          ELSE /\ trace' = trace \o <<Ev("request", RelatedPaperId(t)),
                                      Ev("sleep", RelatedPaperId(t))>>
               /\ callers' = Locals(t,
                      IF answer.json
                      THEN [pc |-> "rrp_store", request |-> answer,
                            related_paper_dict |-> answer.body]
                      ELSE [pc |-> "ValueError", request |-> answer])
    /\ UNCHANGED <<sharedVars, papers_dict, files, out_dir_name>>

\* Line 91.
CallerStore(t) ==
    /\ callers[t].pc = "rrp_store"
    /\ papers_dict' = StoreRecord(papers_dict, RelatedPaperId(t), callers[t].related_paper_dict)
    /\ trace' = Append(trace, Ev("store", RelatedPaperId(t)))
    /\ callers' = Locals(t, [pc |-> "rrp_save"])
    /\ UNCHANGED <<sharedVars, files, out_dir_name>>

\* Lines 93-94.
CallerSave(t) ==
    /\ callers[t].pc = "rrp_save"
    /\ IF out_dir_name = None
       THEN /\ callers' = Locals(t, [pc |-> "rrp_enqueue"])
            /\ UNCHANGED <<files, trace>>
       ELSE IF ~HasTitle(callers[t].related_paper_dict)
            THEN /\ callers' = Locals(t, [pc |-> "KeyError"])
                 /\ UNCHANGED <<files, trace>>
            ELSE /\ files' = save_json(files, callers[t].related_paper_dict)
                 /\ trace' = Append(trace, Ev("save", RelatedPaperId(t)))
                 /\ callers' = Locals(t, [pc |-> "rrp_enqueue"])
    /\ UNCHANGED <<repo, pc, exc, stack, current_paper_id, call_line, paper_visited_set,
                   rrpVars, fetchVars, seedVars, handlerVars, papers_dict, out_dir_name,
                   paper_id_queue>>

\* Lines 96-97, and the loop's next turn.
CallerEnqueue(t) ==
    /\ callers[t].pc = "rrp_enqueue"
    /\ paper_id_queue' = Enqueue(paper_id_queue, paper_visited_set, RelatedPaperId(t))
    /\ trace' = (IF paper_id_queue' # paper_id_queue
                 THEN Append(trace, Ev("enqueue", RelatedPaperId(t)))
                 ELSE trace)
    /\ callers' = Locals(t, [pc |-> "rrp_for", idx |-> callers[t].idx + 1])
    /\ UNCHANGED <<repo, pc, exc, stack, current_paper_id, call_line, paper_visited_set,
                   rrpVars, fetchVars, seedVars, handlerVars, papers_dict, files, out_dir_name>>

\* The callers share the papers_dict of the seeds, an empty deque and an
\* empty set, with or without an output directory.
InitCallers ==
    /\ repo \in Repositories
    /\ \E seeds \in Orders(RealIds, MaxSeeds) :
          seeds # <<>> /\ papers_dict = SeedDict(repo, seeds)
    /\ out_dir_name \in OutDirs
    /\ callers = [t \in Callers |-> NoLocals]
    /\ files = <<>>
    /\ trace = <<>>
    /\ pc = "idle"
    /\ exc = None
    /\ stack = <<>>
    /\ paper_id_queue = <<>>
    /\ paper_visited_set = {}
    /\ current_paper_id = None
    /\ call_line = 0
    /\ paper_id = None
    /\ relationship_type = None
    /\ related_papers_id_list = <<>>
    /\ idx = 0
    /\ related_paper_dict = ErrorBody
    /\ fetch_id = None
    /\ request = NoResponse
    /\ paper_title_list = <<>>
    /\ title_idx = 0
    /\ attributes_dict = <<>>
    /\ page = NoPage
    /\ main_idx = 0
    /\ web_driver = None
    /\ swallowed = <<>>

NextCallers ==
    \E t \in Callers :
        \/ CallerEnter(t)
        \/ CallerFor(t)
        \/ CallerFetch(t)
        \/ CallerStore(t)
        \/ CallerSave(t)
        \/ CallerEnqueue(t)

SpecCallers == InitCallers /\ [][NextCallers]_vars

\* ------------------------------------------------------------- properties

\* The number of events of one kind for one identifier.
Count(kind, id) == Cardinality({i \in DOMAIN trace : trace[i] = Ev(kind, id)})

AllIds == RealIds \cup {EmptyId}

\* The identifiers one paper of the repository points to, '' left out.
EdgeTargets(rp, id) ==
    ({rp[id]["references"][i]["paperId"] : i \in DOMAIN rp[id]["references"]}
     \cup {rp[id]["citations"][i]["paperId"] : i \in DOMAIN rp[id]["citations"]})
    \ {EmptyId}

\* The identifiers reachable from S through references and citations.
RECURSIVE ReachFrom(_, _)
ReachFrom(rp, S) ==
    LET more == S \cup UNION {EdgeTargets(rp, x) : x \in S}
    IN  IF more = S THEN S ELSE ReachFrom(rp, more)

\* A run of get_related_papers has ended: it returned, or an exception left it.
GrpEnded ==
    \/ pc = "done"
    \/ pc = "raised" /\ stack # <<>> /\ stack[1] = "get_related_papers"

\* No fetch of the run failed: none raised, and every record of papers_dict
\* is a paper's.
EveryFetchSucceeded ==
    /\ exc \notin {"RequestException", "ValueError"}
    /\ \A id \in Keys(papers_dict) : "paperId" \in DOMAIN Get(papers_dict, id)

\* The for loop of _retrieve_related_papers has handled its whole list.
ListHandled == pc = "rrp_for" /\ idx > Len(related_papers_id_list)

\* C1: no identifier is requested from the repository more than once, however
\* many edges point to it.
AtMostOnceFetch == \A id \in AllIds : Count("request", id) <= 1

\* C1 witness: a list that names one identifier twice has been handled, and
\* the identifier was requested once.
AtMostOnceFetchWitness ==
    /\ ListHandled
    /\ \E i, j \in DOMAIN related_papers_id_list :
          /\ i < j
          /\ related_papers_id_list[i] = related_papers_id_list[j]
          /\ Count("request", related_papers_id_list[i]) = 1

\* C2 (as claimed): when a run in which no fetch failed has ended, the visited
\* set is the set of identifiers reachable from the seeds.
Reachability ==
    GrpEnded /\ EveryFetchSucceeded
        => paper_visited_set = ReachFrom(repo, Keys(papers_dict))

\* C3 (as claimed): a run in which no fetch failed ends only by returning,
\* with the queue empty.
CompletesNormally ==
    GrpEnded /\ EveryFetchSucceeded => pc = "done" /\ paper_id_queue = <<>>

\* C4: the empty identifier is never in the list the loop walks, never
\* requested, stored, saved or enqueued, and never a key of papers_dict nor
\* in the queue or the visited set.
EmptyEdgeFiltering ==
    /\ EmptyId \notin Range(related_papers_id_list)
    /\ EmptyId \notin Keys(papers_dict)
    /\ EmptyId \notin Range(paper_id_queue)
    /\ EmptyId \notin paper_visited_set
    /\ fetch_id # EmptyId
    /\ \A i \in DOMAIN trace : trace[i]["id"] # EmptyId

\* C4 witness: an edge list holding an empty stub has been handled, and one of
\* its other stubs was fetched.
EmptyEdgeFilteringWitness ==
    /\ ListHandled
    /\ \E i \in DOMAIN Get(papers_dict, paper_id)[relationship_type] :
          Get(papers_dict, paper_id)[relationship_type][i]["paperId"] = EmptyId
    /\ \E id \in Range(related_papers_id_list) : Count("store", id) = 1

\* C5: a key of papers_dict stays a key, with the same record.
RecordImmutability ==
    [][\A k \in Keys(papers_dict) :
          /\ k \in Keys(papers_dict')
          /\ Get(papers_dict', k) = Get(papers_dict, k)]_vars

\* C5 witness: a list naming a seed and a fetched paper has been handled, after
\* some record was stored.
RecordImmutabilityWitness ==
    /\ ListHandled
    /\ \E s, f \in Range(related_papers_id_list) :
          /\ "abstract" \in DOMAIN Get(papers_dict, s)
          /\ Count("store", f) = 1
    /\ Len(papers_dict.keys) >= 3

\* A fetch raised: RequestException (line 226) or ValueError (line 229).
FetchFailed == exc \in {"RequestException", "ValueError"}

\* C6: a failed fetch ends the run at once: the failed identifier has no
\* record, no file and no place in the queue, and nothing happens afterwards.
FetchFailureIsFatal ==
    /\ [](FetchFailed =>
            /\ pc = "raised"
            /\ trace[Len(trace)]["id"] = fetch_id
            /\ trace[Len(trace)]["ev"] \in {"request", "sleep"}
            /\ fetch_id \notin Keys(papers_dict)
            /\ fetch_id \notin Range(paper_id_queue)
            /\ Count("store", fetch_id) = 0
            /\ Count("save", fetch_id) = 0
            /\ Count("enqueue", fetch_id) = 0)
    /\ [][FetchFailed => UNCHANGED <<papers_dict, files, paper_id_queue, trace>>]_vars

\* C6 witness: a fetch failed after an earlier one was stored, saved and enqueued.
FetchFailureIsFatalWitness ==
    /\ exc = "RequestException"
    /\ \E id \in RealIds :
          Count("store", id) = 1 /\ Count("save", id) = 1 /\ Count("enqueue", id) = 1

\* C7 (as claimed): the fetcher never returns the object of a non-2xx answer,
\* and no such object is a record of papers_dict.
NonSuccessIsFetchError ==
    /\ pc = "rrp_store" => "error" \notin DOMAIN related_paper_dict
    /\ \A id \in Keys(papers_dict) : "error" \notin DOMAIN Get(papers_dict, id)

\* The identifiers of the events of one kind, in order, among the events
\* after position from.
IdsOf(kind, from) ==
    LET sel == SelectSeq([i \in DOMAIN trace |-> [at |-> i, e |-> trace[i]]],
                         LAMBDA x : x.at > from /\ x.e["ev"] = kind)
    IN  [i \in DOMAIN sel |-> sel[i].e["id"]]

\* C8 (as claimed): between two requests of the fetcher there is a sleep.
CooldownBetweenRequests ==
    \A i, j \in DOMAIN trace :
        i < j /\ trace[i]["ev"] = "request" /\ trace[j]["ev"] = "request"
            => \E k \in (i + 1)..(j - 1) : trace[k]["ev"] = "sleep"

\* The position of the first visit, the start of the crawl's events; the
\* length of the trace when nothing was visited.
CrawlStart ==
    IF \E i \in DOMAIN trace : trace[i]["ev"] = "visit"
    THEN MinOf({i \in DOMAIN trace : trace[i]["ev"] = "visit"}) - 1
    ELSE Len(trace)

\* The queue get_related_papers started with: the keys papers_dict had then.
InitialQueue ==
    SelectSeq(papers_dict.keys,
              LAMBDA k : \A i \in DOMAIN trace : trace[i] = Ev("store", k) => i <= CrawlStart)

\* The least number of edges from a paper of S to id; Cardinality(RealIds)
\* when there is no path.
RECURSIVE DistanceFrom(_, _, _, _)
DistanceFrom(rp, S, id, d) ==
    IF id \in S THEN d
    ELSE IF d >= Cardinality(RealIds) THEN d
    ELSE DistanceFrom(rp, S \cup UNION {EdgeTargets(rp, x) : x \in S}, id, d + 1)

FileOf(rp, id) == create_json_file_name(rp[id])

\* C11 (as claimed): the crawl of the diamond from the seed A with an output
\* directory ends with no request for A and one for each of B, C and D, with
\* the visits A, B, C, D in that order, and with one file for each of the four.
DiamondScenario ==
    (/\ repo = Diamond
     /\ InitialQueue = <<"A">>
     /\ out_dir_name = "out"
     /\ GrpEnded
     /\ EveryFetchSucceeded)
        => /\ Count("request", "A") = 0
           /\ \A id \in {"B", "C", "D"} : Count("request", id) = 1
           /\ IdsOf("visit", 0) = <<"A", "B", "C", "D">>
           /\ DOMAIN files = {FileOf(Diamond, id) : id \in RealIds}
           /\ Cardinality(DOMAIN files) = 4

MalformedSaveIsSkipped ==
    [][(pc = "rrp_save" /\ out_dir_name # None /\ ~HasTitle(related_paper_dict))
          => /\ pc' = "rrp_enqueue"
             /\ exc' = None
             /\ files' = files]_vars

\* The positions of the trace at which a record was written under a name.
SavesUnder(name) ==
    {i \in DOMAIN trace :
        /\ trace[i]["ev"] = "save"
        /\ create_json_file_name(Get(papers_dict, trace[i]["id"])) = name}

\* The identifier whose record was written last under a name.
LastSaved(name) ==
    trace[CHOOSE i \in SavesUnder(name) : \A j \in SavesUnder(name) : j <= i]["id"]

\* Every file holds the record written last under its name, and there are no
\* more files than saves.
OverwriteOnCollision ==
    /\ \A name \in DOMAIN files :
          /\ SavesUnder(name) # {}
          /\ files[name] = Get(papers_dict, LastSaved(name))
    /\ Cardinality(DOMAIN files) <= Cardinality({i \in DOMAIN trace : trace[i]["ev"] = "save"})

\* C14 (as claimed): files are overwritten silently, and when a crawl with an
\* output directory in which no fetch failed has ended, two distinct
\* identifiers it discovers whose titles give one file name were both
\* requested once, stored apart, enqueued and visited, and no exception ended
\* the crawl.
FilenameCollisionIsSilent ==
    /\ OverwriteOnCollision
    /\ (GrpEnded /\ EveryFetchSucceeded /\ out_dir_name = "out")
          => \A c, d \in ReachFrom(repo, Range(InitialQueue)) \ Range(InitialQueue) :
                (c # d /\ FileOf(repo, c) = FileOf(repo, d))
                   => /\ exc = None
                      /\ \A id \in {c, d} :
                            /\ Count("request", id) = 1
                            /\ Has(papers_dict, id)
                            /\ Get(papers_dict, id) = repo[id]
                            /\ Count("enqueue", id) = 1
                            /\ id \in paper_visited_set
                      /\ FileOf(repo, c) \in DOMAIN files

\* The titles scrap_paper_list_by_title is done with.
TitlesHandled == 1..(IF title_idx > 0 THEN title_idx - 1 ELSE 0)

\* The h1 of the page behind the first result for the i-th title.
ResolvedTitle(i) == repo[FirstResult(paper_title_list[i])]["title"]

\* C15: a title whose page differs from it by more than 10 edits leaves no
\* record in the seed dictionary and ends nothing; the browser stays usable
\* for every title, and a title whose paper was fetched leaves its record.
MismatchDropsOnlyTheSeed ==
    /\ pc # "raised" /\ exc = None
    /\ pc \in {"spbt_search", "spbt_check", "spbt_scrape"} => web_driver = "open"
    /\ \A i \in TitlesHandled :
          ~TitleMatches(paper_title_list[i], ResolvedTitle(i))
              => ~Has(papers_dict, FirstResult(paper_title_list[i]))
    /\ (pc = "splt_for" /\ title_idx > 1 /\ "paperId" \in DOMAIN attributes_dict)
          => /\ TitleMatches(paper_title_list[title_idx - 1], ResolvedTitle(title_idx - 1))
             /\ Has(papers_dict, attributes_dict["paperId"])
             /\ Get(papers_dict, attributes_dict["paperId"]) = attributes_dict

\* C15 witness: the first title did not match its page, the second did, and
\* main ended with the second title's record alone.
MismatchDropsOnlyTheSeedWitness ==
    /\ pc = "done"
    /\ Len(paper_title_list) = 2
    /\ ~TitleMatches(paper_title_list[1], ResolvedTitle(1))
    /\ TitleMatches(paper_title_list[2], ResolvedTitle(2))
    /\ Keys(papers_dict) = {FirstResult(paper_title_list[2])}
    /\ swallowed = <<"TypeError">>

\* The position of the first event of one kind for one identifier, 0 when
\* there is none.
Pos(kind, id) ==
    IF Count(kind, id) = 0 THEN 0
    ELSE MinOf({i \in DOMAIN trace : trace[i] = Ev(kind, id)})

\* A paper's whole object, as a successful fetch returns it.
Complete(rec) == {"paperId", "title", "references", "citations"} \subseteq DOMAIN rec

\* The steps for one identifier come in the order of lines 90-97: request,
\* store, save (with an output directory), enqueue.
StepsInOrder ==
    /\ \A id \in RealIds :
          /\ Count("store", id) > 0 => (0 < Pos("request", id) /\ Pos("request", id) < Pos("store", id))
          /\ Count("save", id) > 0 => (0 < Pos("store", id) /\ Pos("store", id) < Pos("save", id))
          /\ Count("enqueue", id) > 0 =>
                /\ 0 < Pos("store", id) /\ Pos("store", id) < Pos("enqueue", id)
                /\ Count("save", id) > 0 => Pos("save", id) < Pos("enqueue", id)
    /\ (pc = "rrp_enqueue" /\ out_dir_name # None)
          => Count("save", related_papers_id_list[idx]) = 1

\* C16 (as claimed): the steps come in order, save_json is called with a
\* paper's whole object only, and an enqueued identifier has its whole object
\* in papers_dict.
PerIdentifierStepOrder ==
    /\ StepsInOrder
    /\ (pc = "rrp_save" /\ out_dir_name # None) => Complete(related_paper_dict)
    /\ \A id \in RealIds :
          Count("enqueue", id) > 0 => Complete(Get(papers_dict, id))

\* The for loop of _retrieve_related_papers is at an identifier that is a
\* key of papers_dict.
AtKnownIdentifier ==
    /\ pc = "rrp_for"
    /\ idx <= Len(related_papers_id_list)
    /\ Has(papers_dict, related_papers_id_list[idx])

\* C17: handling an edge whose target is a key of papers_dict changes neither
\* papers_dict, the queue, the visited set nor the files, and requests
\* nothing: the loop moves to the next identifier.
KnownIdentifierIsNoOp ==
    [][AtKnownIdentifier
          => /\ UNCHANGED <<papers_dict, paper_id_queue, paper_visited_set, files, trace>>
             /\ pc' = "rrp_for"
             /\ idx' = idx + 1
             /\ fetch_id' = fetch_id]_vars

\* C17 witness: a list naming the expanding paper itself and a paper that
\* waits in the queue has been handled, every target being a key already.
KnownIdentifierIsNoOpWitness ==
    /\ ListHandled
    /\ paper_id \in Range(related_papers_id_list)
    /\ \E id \in Range(related_papers_id_list) :
          id \in Range(paper_id_queue) /\ Count("request", id) = 1
    /\ Count("request", paper_id) = 0
    /\ trace[Len(trace)]["id"] \notin Range(related_papers_id_list)

\* get_related_papers is running, or an exception has just left it.
InGetRelatedPapers == stack # <<>> /\ stack[1] = "get_related_papers"

\* C18: the queue never holds an identifier twice; while get_related_papers
\* runs it never holds a visited identifier, no identifier is visited twice,
\* and the identifier popped at line 60 is never in the visited set already.
NoDuplicateEnqueue ==
    /\ \A i, j \in DOMAIN paper_id_queue :
          paper_id_queue[i] = paper_id_queue[j] => i = j
    /\ \A id \in AllIds : Count("enqueue", id) <= 1
    /\ InGetRelatedPapers =>
          /\ Range(paper_id_queue) \cap paper_visited_set = {}
          /\ \A id \in AllIds : Count("visit", id) <= 1
          /\ pc = "grp_if" => current_paper_id \notin paper_visited_set

\* C18 witness: an identifier that two edges of one list name was enqueued
\* once, and a later run of get_related_papers popped a seed while the other
\* seed stayed in the queue.
NoDuplicateEnqueueWitness ==
    /\ InGetRelatedPapers
    /\ pc = "grp_call"
    /\ paper_id_queue # <<>>
    /\ \E id \in RealIds :
          /\ Count("enqueue", id) = 1
          /\ Cardinality({i \in DOMAIN repo["A"]["references"] :
                             repo["A"]["references"][i]["paperId"] = id}) = 2

\* The identifiers that entered the queue of get_related_papers, and those
\* that left it.
Entered == InitialQueue \o IdsOf("enqueue", CrawlStart)

Popped == Range(Entered) \ Range(paper_id_queue)

\* C19 (as claimed): while get_related_papers runs, and in the state an
\* exception leaves behind, a visited identifier is not the one whose
\* expansions are still under way.
VisitedMeansFullyExpanded ==
    InGetRelatedPapers =>
        \A id \in paper_visited_set : id = current_paper_id => pc = "grp_while"

\* C19 (amended): an identifier is visited from the start of its turn: the
\* visited set is the set of the identifiers popped off the queue, the one
\* popped at line 60 joining it at line 63, before line 64.
VisitedMeansTurnBegun ==
    InGetRelatedPapers =>
        /\ paper_visited_set = Popped \ (IF pc = "grp_if" THEN {current_paper_id} ELSE {})
        /\ pc \notin {"grp_while", "grp_if"} => current_paper_id \in paper_visited_set

\* C19 witness: an exception ended the crawl during the turn of a visited
\* identifier, other identifiers still waiting.
VisitedMeansTurnBegunWitness ==
    /\ InGetRelatedPapers
    /\ pc = "raised"
    /\ current_paper_id \in paper_visited_set
    /\ paper_id_queue # <<>>

\* No caller's call was ended by an exception.
NoCallerFailed ==
    \A t \in DOMAIN callers :
        callers[t].pc \notin {"RequestException", "ValueError", "KeyError"}

\* C20 (as claimed): with two callers on one papers_dict, no identifier is
\* stored twice (one caller's record put over the other's) or enqueued
\* twice, and while no call has failed none is requested twice.
AtomicSingleFetchGate ==
    \A id \in AllIds :
        /\ Count("store", id) <= 1
        /\ Count("enqueue", id) <= 1
        /\ NoCallerFailed => Count("request", id) <= 1

====
